---------------------------- MODULE Spec2Model ----------------------------
(***************************************************************************)
(* A model of the 6502 interpreter core of nestalgia_rs (src/src/cpu.rs):  *)
(* the CPU struct, its memory primitives, the addressing-mode resolver,    *)
(* the instruction handlers and the fetch-decode-dispatch loop of run().   *)
(*                                                                         *)
(* Encoding notes.                                                         *)
(*  - The CPU struct is one record-valued variable, cpu.  Its field        *)
(*    `panic` is not a field of the Rust struct: it records the panic      *)
(*    (if any) that ended the call in progress, "none" otherwise.          *)
(*  - memory is the array [u8; 0xFFFF].  It is zero-initialised, and the   *)
(*    model stores it as the function from the indices that hold a         *)
(*    non-zero byte to that byte; every other index below MEMORY_LEN       *)
(*    reads 0.  An index >= MEMORY_LEN is the Rust index-out-of-bounds     *)
(*    panic.                                                               *)
(*  - A Vec<u8> program is stored the same way: its length and the         *)
(*    function from the positions of its non-zero bytes.                   *)
(***************************************************************************)
EXTENDS Integers, Sequences, FiniteSets, TLC

VARIABLES
    cpu,     \* the CPU struct (plus the panic outcome of the current call)
    phase,   \* "idle" | "running" | "halted" | "panicked": where run() is
    last,    \* trace of the last call or loop iteration: what it was, and the CPU before it
    entry,   \* the CPU as it was when run() was last entered
    loads,   \* number of load() calls made so far
    pokes,   \* number of direct mem_write() calls made so far
    runs     \* number of run() calls made so far

vars == <<cpu, phase, last, entry, loads, pokes, runs>>

Byte == 0 .. 255

(***************************************************************************)
(* Program constants                                                       *)
(***************************************************************************)
MEMORY_LEN == 65535
STACK == 256
STACK_RESET == 253
PROGRAM_ORIGIN == 32768
RESET_VECTOR == 65532
STATUS_INIT == 36

CARRY == 1
ZERO == 2
INTERRUPT_DISABLE == 4
DECIMAL_MODE == 8
BREAK == 16
BREAK2 == 32
OVERFLOW == 64
NEGATIVE == 128

\* from_bits_truncate: keep only the bits that are named flags (all eight are)
from_bits_truncate(bits) == bits % 256

\* CPUFlags::contains for a single-bit flag
contains(status, flag) == (status \div flag) % 2 = 1

\* CPUFlags::insert for a single-bit flag
insert(status, flag) == IF contains(status, flag) THEN status ELSE status + flag

\* CPUFlags::remove for a single-bit flag
remove(status, flag) == IF contains(status, flag) THEN status - flag ELSE status

(***************************************************************************)
(* u8 / u16 arithmetic                                                     *)
(***************************************************************************)
Bit(v, i) == (v \div (2 ^ i)) % 2

\* (variant: the sum stops at 255)
saturating_add_u8(a, b) == IF a + b > 255 THEN 255 ELSE a + b

\* (variant: the sum is taken in 16 bits and keeps its carry)
widening_add_u8(a, b) == a + b

wrapping_add_u8(a, b) == (a + b) % 256

\* (variant: the difference stops at 0)
saturating_sub_u8(a, b) == IF a >= b THEN a - b ELSE 0

wrapping_sub_u8(a, b) == (a - b + 256) % 256

wrapping_add_u16(a, b) == (a + b) % 65536

\* a & b on u8
BitAnd(a, b) ==
    LET f[i \in 0 .. 8] ==
            IF i = 8 THEN 0 ELSE (2 ^ i) * (Bit(a, i) * Bit(b, i)) + f[i + 1]
    IN f[0]

\* a | b on u8
BitOr(a, b) ==
    LET f[i \in 0 .. 8] ==
            IF i = 8 THEN 0
            ELSE (2 ^ i) * (IF Bit(a, i) + Bit(b, i) > 0 THEN 1 ELSE 0) + f[i + 1]
    IN f[0]

\* a ^ b on u8
BitXor(a, b) ==
    LET f[i \in 0 .. 8] ==
            IF i = 8 THEN 0 ELSE (2 ^ i) * ((Bit(a, i) + Bit(b, i)) % 2) + f[i + 1]
    IN f[0]

\* (hi as u16) << 8 | (lo as u16)
MakeU16(hi, lo) == hi * 256 + lo

(***************************************************************************)
(* Panics.  A panic unwinds out of the call: the first one wins and the    *)
(* state keeps whatever had been written before it.                        *)
(***************************************************************************)
PANIC_INDEX == "index out of bounds"
PANIC_MODE == "mode NoneAddressing is not supported"
PANIC_TODO == "not yet implemented"
PANIC_INVALID == "Invalid code"
PANIC_OVERFLOW == "attempt to add with overflow"

Panic(c, msg) == IF c.panic = "none" THEN [c EXCEPT !.panic = msg] ELSE c

(***************************************************************************)
(* Memory                                                                  *)
(***************************************************************************)
InBounds(addr) == addr >= 0 /\ addr < MEMORY_LEN

\* self.memory[addr as usize], for an index in bounds
ReadByte(memory, addr) == IF addr \in DOMAIN memory THEN memory[addr] ELSE 0

\* self.memory[addr as usize] = data, for an index in bounds
WriteByte(memory, addr, data) ==
    [a \in (IF data = 0 THEN DOMAIN memory \ {addr} ELSE DOMAIN memory \cup {addr})
        |-> IF a = addr THEN data ELSE memory[a]]

\* fn mem_read: [panic, val]
mem_read(c, addr) ==
    IF InBounds(addr)
    THEN [panic |-> "none", val |-> ReadByte(c.memory, addr)]
    ELSE [panic |-> PANIC_INDEX, val |-> 0]

\* fn mem_write
mem_write(c, addr, data) ==
    IF c.panic # "none" THEN c
    ELSE IF InBounds(addr)
    THEN [c EXCEPT !.memory = WriteByte(c.memory, addr, data)]
    ELSE Panic(c, PANIC_INDEX)

\* `pos + 1` on u16: overflow panics in a build with overflow checks and
\* wraps in one without; checked tells which build this is
add_u16(a, b, checked) ==
    IF a + b <= 65535 THEN [panic |-> "none", val |-> a + b]
    ELSE IF checked THEN [panic |-> PANIC_OVERFLOW, val |-> 0]
    ELSE [panic |-> "none", val |-> (a + b) % 65536]

\* fn mem_read_u16: [panic, val]
ReadU16Join(lo, hi) ==
    IF hi.panic # "none" THEN hi ELSE [panic |-> "none", val |-> MakeU16(hi.val, lo.val)]

ReadU16Hi(c, lo, nxt) ==
    IF lo.panic # "none" THEN lo
    ELSE IF nxt.panic # "none" THEN nxt
    ELSE ReadU16Join(lo, mem_read(c, nxt.val))

mem_read_u16(c, pos) ==
    ReadU16Hi(c, mem_read(c, pos), add_u16(pos, 1, c.overflow_checks))

\* fn mem_write_u16
WriteU16Hi(c1, nxt, hi) ==
    IF c1.panic # "none" THEN c1
    ELSE IF nxt.panic # "none" THEN Panic(c1, nxt.panic)
    ELSE mem_write(c1, nxt.val, hi)

mem_write_u16(c, pos, data) ==
    WriteU16Hi(mem_write(c, pos, data % 256),
               add_u16(pos, 1, c.overflow_checks),
               data \div 256)

(***************************************************************************)
(* Addressing modes                                                        *)
(***************************************************************************)
AddressingMode ==
    {"Immediate", "ZeroPage", "ZeroPage_X", "ZeroPage_Y", "Absolute",
     "Absolute_X", "Absolute_Y", "Indirect_X", "Indirect_Y", "NoneAddressing"}

Ok(v) == [panic |-> "none", val |-> v]

\* (variant: the high byte is read at ptr + 1 without wrapping in page 0)
IndirectXCrossesPage(c, ptr) ==
    Ok(MakeU16(ReadByte(c.memory, ptr + 1), ReadByte(c.memory, ptr)))

\* Indirect_X: the pointer is base + register_x in page 0; both bytes are read there
IndirectX(c, ptr) ==
    Ok(MakeU16(ReadByte(c.memory, wrapping_add_u8(ptr, 1)), ReadByte(c.memory, ptr)))

\* Indirect_Y: the pointer is base; register_y is added to what it points to
IndirectY(c, base) ==
    Ok(wrapping_add_u16(
           MakeU16(ReadByte(c.memory, wrapping_add_u8(base, 1)), ReadByte(c.memory, base)),
           c.register_y))

\* the arms of the match, given mem_read(pc) as b and mem_read_u16(pc) as w
Resolve(c, mode, b, w) ==
    CASE mode = "Immediate" -> Ok(c.program_counter)
      [] mode = "ZeroPage" -> b
      [] mode = "Absolute" -> w
      [] mode = "ZeroPage_X" ->
            IF b.panic # "none" THEN b ELSE Ok(wrapping_add_u8(b.val, c.register_x))
      [] mode = "ZeroPage_Y" ->
            IF b.panic # "none" THEN b ELSE Ok(wrapping_add_u8(b.val, c.register_y))
      [] mode = "Absolute_X" ->
            IF w.panic # "none" THEN w ELSE Ok(wrapping_add_u16(w.val, c.register_x))
      [] mode = "Absolute_Y" ->
            IF w.panic # "none" THEN w ELSE Ok(wrapping_add_u16(w.val, c.register_y))
      [] mode = "Indirect_X" ->
            IF b.panic # "none" THEN b
            ELSE IndirectX(c, wrapping_add_u8(b.val, c.register_x))
      [] mode = "Indirect_Y" ->
            IF b.panic # "none" THEN b ELSE IndirectY(c, b.val)
      [] mode = "NoneAddressing" -> [panic |-> PANIC_MODE, val |-> 0]

\* fn get_operand_address: [panic, val]
get_operand_address(c, mode) ==
    Resolve(c, mode, mem_read(c, c.program_counter), mem_read_u16(c, c.program_counter))

\* get_operand_address followed by mem_read of the address: [panic, addr, val]
OperandAt(a, v) ==
    IF a.panic # "none" THEN [panic |-> a.panic, addr |-> 0, val |-> 0]
    ELSE [panic |-> v.panic, addr |-> a.val, val |-> v.val]

ReadAt(c, a) == OperandAt(a, mem_read(c, a.val))

ReadOperand(c, mode) == ReadAt(c, get_operand_address(c, mode))

(***************************************************************************)
(* Status register                                                         *)
(***************************************************************************)
\* fn update_zero_and_negative_flags, on the status byte
SetNegative(status, result) ==
    IF BitAnd(result, 128) # 0 THEN insert(status, NEGATIVE) ELSE remove(status, NEGATIVE)

\* (variant: Zero is set for a zero result and never cleared)
ZeroSticky(status, result) ==
    SetNegative(IF result = 0 THEN insert(status, ZERO) ELSE status, result)

ZeroNegative(status, result) ==
    SetNegative(IF result = 0 THEN insert(status, ZERO) ELSE remove(status, ZERO), result)

update_zero_and_negative_flags(c, result) ==
    [c EXCEPT !.status = ZeroNegative(c.status, result)]

(***************************************************************************)
(* Stack                                                                   *)
(***************************************************************************)
\* fn stack_pop: [c, val]; the pointer moves first, then the byte is read
PopAt(c, sp) ==
    [c |-> [c EXCEPT !.stack_pointer = sp], val |-> ReadByte(c.memory, STACK + sp)]

stack_pop(c) == PopAt(c, wrapping_add_u8(c.stack_pointer, 1))

\* fn stack_push
PushDone(c, c1) ==
    IF c1.panic # "none" THEN c1
    ELSE [c1 EXCEPT !.stack_pointer = wrapping_sub_u8(c.stack_pointer, 1)]

stack_push(c, data) == PushDone(c, mem_write(c, STACK + c.stack_pointer, data))

\* (variant: the low byte is pushed first)
StackPushLowFirst(c, data) == stack_push(stack_push(c, data % 256), data \div 256)

\* fn stack_push_u16
stack_push_u16(c, data) == stack_push(stack_push(c, data \div 256), data % 256)

\* fn stack_pop_u16: [c, val]
PopU16Join(lo, hi) == [c |-> hi.c, val |-> MakeU16(hi.val, lo.val)]

PopU16Hi(lo) == PopU16Join(lo, stack_pop(lo.c))

stack_pop_u16(c) == PopU16Hi(stack_pop(c))

(***************************************************************************)
(* Opcode table: crate::opcodes::CPU_OPS_CODES.  run() reads a             *)
(* descriptor's code, op, bytes and addressing_mode.  The table is the     *)
(* 6502 instruction set of the reference cpu.rs names: an entry is         *)
(* <<code, op, bytes, addressing_mode>>, and an instruction with no memory *)
(* operand (implied, accumulator, relative, jump target) has               *)
(* NoneAddressing.                                                         *)
(***************************************************************************)
OpcodeRows ==
    {
        <<105, "ADC", 2, "Immediate">>, <<101, "ADC", 2, "ZeroPage">>,
        <<117, "ADC", 2, "ZeroPage_X">>, <<109, "ADC", 3, "Absolute">>,
        <<125, "ADC", 3, "Absolute_X">>, <<121, "ADC", 3, "Absolute_Y">>,
        << 97, "ADC", 2, "Indirect_X">>, <<113, "ADC", 2, "Indirect_Y">>,
        << 41, "AND", 2, "Immediate">>, << 37, "AND", 2, "ZeroPage">>,
        << 53, "AND", 2, "ZeroPage_X">>, << 45, "AND", 3, "Absolute">>,
        << 61, "AND", 3, "Absolute_X">>, << 57, "AND", 3, "Absolute_Y">>,
        << 33, "AND", 2, "Indirect_X">>, << 49, "AND", 2, "Indirect_Y">>,
        << 10, "ASL", 1, "NoneAddressing">>, <<  6, "ASL", 2, "ZeroPage">>,
        << 22, "ASL", 2, "ZeroPage_X">>, << 14, "ASL", 3, "Absolute">>,
        << 30, "ASL", 3, "Absolute_X">>, <<144, "BCC", 2, "NoneAddressing">>,
        <<176, "BCS", 2, "NoneAddressing">>, <<240, "BEQ", 2, "NoneAddressing">>,
        << 36, "BIT", 2, "ZeroPage">>, << 44, "BIT", 3, "Absolute">>,
        << 48, "BMI", 2, "NoneAddressing">>, <<208, "BNE", 2, "NoneAddressing">>,
        << 16, "BPL", 2, "NoneAddressing">>, <<  0, "BRK", 1, "NoneAddressing">>,
        << 80, "BVC", 2, "NoneAddressing">>, <<112, "BVS", 2, "NoneAddressing">>,
        << 24, "CLC", 1, "NoneAddressing">>, <<216, "CLD", 1, "NoneAddressing">>,
        << 88, "CLI", 1, "NoneAddressing">>, <<184, "CLV", 1, "NoneAddressing">>,
        <<201, "CMP", 2, "Immediate">>, <<197, "CMP", 2, "ZeroPage">>,
        <<213, "CMP", 2, "ZeroPage_X">>, <<205, "CMP", 3, "Absolute">>,
        <<221, "CMP", 3, "Absolute_X">>, <<217, "CMP", 3, "Absolute_Y">>,
        <<193, "CMP", 2, "Indirect_X">>, <<209, "CMP", 2, "Indirect_Y">>,
        <<224, "CPX", 2, "Immediate">>, <<228, "CPX", 2, "ZeroPage">>,
        <<236, "CPX", 3, "Absolute">>, <<192, "CPY", 2, "Immediate">>,
        <<196, "CPY", 2, "ZeroPage">>, <<204, "CPY", 3, "Absolute">>,
        <<198, "DEC", 2, "ZeroPage">>, <<214, "DEC", 2, "ZeroPage_X">>,
        <<206, "DEC", 3, "Absolute">>, <<222, "DEC", 3, "Absolute_X">>,
        <<202, "DEX", 1, "NoneAddressing">>, <<136, "DEY", 1, "NoneAddressing">>,
        << 73, "EOR", 2, "Immediate">>, << 69, "EOR", 2, "ZeroPage">>,
        << 85, "EOR", 2, "ZeroPage_X">>, << 77, "EOR", 3, "Absolute">>,
        << 93, "EOR", 3, "Absolute_X">>, << 89, "EOR", 3, "Absolute_Y">>,
        << 65, "EOR", 2, "Indirect_X">>, << 81, "EOR", 2, "Indirect_Y">>,
        <<230, "INC", 2, "ZeroPage">>, <<246, "INC", 2, "ZeroPage_X">>,
        <<238, "INC", 3, "Absolute">>, <<254, "INC", 3, "Absolute_X">>,
        <<232, "INX", 1, "NoneAddressing">>, <<200, "INY", 1, "NoneAddressing">>,
        << 76, "JMP", 3, "NoneAddressing">>, <<108, "JMP", 3, "NoneAddressing">>,
        << 32, "JSR", 3, "NoneAddressing">>, <<169, "LDA", 2, "Immediate">>,
        <<165, "LDA", 2, "ZeroPage">>, <<181, "LDA", 2, "ZeroPage_X">>,
        <<173, "LDA", 3, "Absolute">>, <<189, "LDA", 3, "Absolute_X">>,
        <<185, "LDA", 3, "Absolute_Y">>, <<161, "LDA", 2, "Indirect_X">>,
        <<177, "LDA", 2, "Indirect_Y">>, <<162, "LDX", 2, "Immediate">>,
        <<166, "LDX", 2, "ZeroPage">>, <<182, "LDX", 2, "ZeroPage_Y">>,
        <<174, "LDX", 3, "Absolute">>, <<190, "LDX", 3, "Absolute_Y">>,
        <<160, "LDY", 2, "Immediate">>, <<164, "LDY", 2, "ZeroPage">>,
        <<180, "LDY", 2, "ZeroPage_X">>, <<172, "LDY", 3, "Absolute">>,
        <<188, "LDY", 3, "Absolute_X">>, << 74, "LSR", 1, "NoneAddressing">>,
        << 70, "LSR", 2, "ZeroPage">>, << 86, "LSR", 2, "ZeroPage_X">>,
        << 78, "LSR", 3, "Absolute">>, << 94, "LSR", 3, "Absolute_X">>,
        <<234, "NOP", 1, "NoneAddressing">>, <<  9, "ORA", 2, "Immediate">>,
        <<  5, "ORA", 2, "ZeroPage">>, << 21, "ORA", 2, "ZeroPage_X">>,
        << 13, "ORA", 3, "Absolute">>, << 29, "ORA", 3, "Absolute_X">>,
        << 25, "ORA", 3, "Absolute_Y">>, <<  1, "ORA", 2, "Indirect_X">>,
        << 17, "ORA", 2, "Indirect_Y">>, << 72, "PHA", 1, "NoneAddressing">>,
        <<  8, "PHP", 1, "NoneAddressing">>, <<104, "PLA", 1, "NoneAddressing">>,
        << 40, "PLP", 1, "NoneAddressing">>, << 42, "ROL", 1, "NoneAddressing">>,
        << 38, "ROL", 2, "ZeroPage">>, << 54, "ROL", 2, "ZeroPage_X">>,
        << 46, "ROL", 3, "Absolute">>, << 62, "ROL", 3, "Absolute_X">>,
        <<106, "ROR", 1, "NoneAddressing">>, <<102, "ROR", 2, "ZeroPage">>,
        <<118, "ROR", 2, "ZeroPage_X">>, <<110, "ROR", 3, "Absolute">>,
        <<126, "ROR", 3, "Absolute_X">>, << 64, "RTI", 1, "NoneAddressing">>,
        << 96, "RTS", 1, "NoneAddressing">>, <<233, "SBC", 2, "Immediate">>,
        <<229, "SBC", 2, "ZeroPage">>, <<245, "SBC", 2, "ZeroPage_X">>,
        <<237, "SBC", 3, "Absolute">>, <<253, "SBC", 3, "Absolute_X">>,
        <<249, "SBC", 3, "Absolute_Y">>, <<225, "SBC", 2, "Indirect_X">>,
        <<241, "SBC", 2, "Indirect_Y">>, << 56, "SEC", 1, "NoneAddressing">>,
        <<248, "SED", 1, "NoneAddressing">>, <<120, "SEI", 1, "NoneAddressing">>,
        <<133, "STA", 2, "ZeroPage">>, <<149, "STA", 2, "ZeroPage_X">>,
        <<141, "STA", 3, "Absolute">>, <<157, "STA", 3, "Absolute_X">>,
        <<153, "STA", 3, "Absolute_Y">>, <<129, "STA", 2, "Indirect_X">>,
        <<145, "STA", 2, "Indirect_Y">>, <<134, "STX", 2, "ZeroPage">>,
        <<150, "STX", 2, "ZeroPage_Y">>, <<142, "STX", 3, "Absolute">>,
        <<132, "STY", 2, "ZeroPage">>, <<148, "STY", 2, "ZeroPage_X">>,
        <<140, "STY", 3, "Absolute">>, <<170, "TAX", 1, "NoneAddressing">>,
        <<168, "TAY", 1, "NoneAddressing">>, <<186, "TSX", 1, "NoneAddressing">>,
        <<138, "TXA", 1, "NoneAddressing">>, <<154, "TXS", 1, "NoneAddressing">>,
        <<152, "TYA", 1, "NoneAddressing">>
    }

CPU_OPS_CODES ==
    { [code |-> r[1], op |-> r[2], bytes |-> r[3], addressing_mode |-> r[4]] : r \in OpcodeRows }

\* CPU_OPS_CODES.iter().find(|opcode| opcode.code == code), as a table over the byte
NoOpcode == [code |-> -1, op |-> "", bytes |-> 0, addressing_mode |-> "NoneAddressing"]

OpcodeOf ==
    [code \in Byte |->
        IF \E o \in CPU_OPS_CODES : o.code = code
        THEN CHOOSE o \in CPU_OPS_CODES : o.code = code
        ELSE NoOpcode]

find(code) == OpcodeOf[code]


(***************************************************************************)
(* Instruction handlers: each takes the CPU and returns it after the       *)
(* handler, with panic set if the handler panicked.                        *)
(***************************************************************************)
\* register_a = value; update_zero_and_negative_flags(register_a)
SetA(c, value) == update_zero_and_negative_flags([c EXCEPT !.register_a = value], value)

\* register_x = value; update_zero_and_negative_flags(register_x)
SetX(c, value) == update_zero_and_negative_flags([c EXCEPT !.register_x = value], value)

\* register_y = value; update_zero_and_negative_flags(register_y)
SetY(c, value) == update_zero_and_negative_flags([c EXCEPT !.register_y = value], value)

\* fn and
AndWith(c, r) ==
    IF r.panic # "none" THEN Panic(c, r.panic) ELSE SetA(c, BitAnd(c.register_a, r.val))

and(c, mode) == AndWith(c, ReadOperand(c, mode))

\* fn asl
AslCarry(c, data) ==
    [c EXCEPT !.status =
        IF data \div 128 = 1 THEN insert(c.status, CARRY) ELSE remove(c.status, CARRY)]

AslStore(c1, mode, addr, shifted) ==
    update_zero_and_negative_flags(
        IF mode = "NoneAddressing"
        THEN [c1 EXCEPT !.register_a = shifted]
        ELSE mem_write(c1, addr.val, shifted),
        shifted)

AslData(c, mode, addr, data) ==
    AslStore(AslCarry(c, data), mode, addr, (data * 2) % 256)

AslAt(c, mode, addr, m) ==
    IF addr.panic # "none" THEN Panic(c, addr.panic)
    ELSE IF mode # "NoneAddressing" /\ m.panic # "none" THEN Panic(c, m.panic)
    ELSE AslData(c, mode, addr, IF mode = "NoneAddressing" THEN c.register_a ELSE m.val)

AslWith(c, mode, addr) == AslAt(c, mode, addr, mem_read(c, addr.val))

\* (variant: Carry is taken from the accumulator before the operand is resolved)
AslCarryFirst(c, mode) ==
    AslWith(AslCarry(c, c.register_a), mode, get_operand_address(c, mode))

asl(c, mode) == AslWith(c, mode, get_operand_address(c, mode))

\* fn eor
\* (variant: | in place of ^)
EorAsOr(c, r) ==
    IF r.panic # "none" THEN Panic(c, r.panic) ELSE SetA(c, BitOr(c.register_a, r.val))

EorWith(c, r) ==
    IF r.panic # "none" THEN Panic(c, r.panic) ELSE SetA(c, BitXor(c.register_a, r.val))

eor(c, mode) == EorWith(c, ReadOperand(c, mode))

\* fn dec
DecWrite(c, addr, val) == update_zero_and_negative_flags(mem_write(c, addr, val), val)

DecWith(c, r) ==
    IF r.panic # "none" THEN Panic(c, r.panic)
    ELSE DecWrite(c, r.addr, wrapping_sub_u8(r.val, 1))

dec(c, mode) == DecWith(c, ReadOperand(c, mode))

\* fn dex
dex(c) == SetX(c, wrapping_sub_u8(c.register_x, 1))

\* fn dey
dey(c) == SetY(c, wrapping_sub_u8(c.register_y, 1))

\* fn sta / stx / sty: write the named register at the operand address
StoreAt(c, addr, value) ==
    IF addr.panic # "none" THEN Panic(c, addr.panic) ELSE mem_write(c, addr.val, value)

sta(c, mode) == StoreAt(c, get_operand_address(c, mode), c.register_a)

stx(c, mode) == StoreAt(c, get_operand_address(c, mode), c.register_x)

sty(c, mode) == StoreAt(c, get_operand_address(c, mode), c.register_y)

\* fn lda
\* (variant: the flags are derived before the register is written)
LdaStaleFlags(c, r) ==
    IF r.panic # "none" THEN Panic(c, r.panic)
    ELSE [update_zero_and_negative_flags(c, c.register_a) EXCEPT !.register_a = r.val]

LdaWith(c, r) == IF r.panic # "none" THEN Panic(c, r.panic) ELSE SetA(c, r.val)

lda(c, mode) == LdaWith(c, ReadOperand(c, mode))

\* fn ldx
LdxWith(c, r) == IF r.panic # "none" THEN Panic(c, r.panic) ELSE SetX(c, r.val)

ldx(c, mode) == LdxWith(c, ReadOperand(c, mode))

\* fn ldy
LdyWith(c, r) == IF r.panic # "none" THEN Panic(c, r.panic) ELSE SetY(c, r.val)

ldy(c, mode) == LdyWith(c, ReadOperand(c, mode))

\* fn ora
OraWith(c, r) ==
    IF r.panic # "none" THEN Panic(c, r.panic) ELSE SetA(c, BitOr(c.register_a, r.val))

ora(c, mode) == OraWith(c, ReadOperand(c, mode))

\* "PLA" => self.register_a = self.stack_pop()   (fn pla does the same)
PlaWith(r) == [r.c EXCEPT !.register_a = r.val]

pla(c) == PlaWith(stack_pop(c))

\* fn tax
tax(c) == SetX(c, c.register_a)

\* fn tay
tay(c) == SetY(c, c.register_a)

\* fn tsx
tsx(c) == SetX(c, c.stack_pointer)

\* fn txa
txa(c) == SetA(c, c.register_x)

\* fn tya: register_a = register_y, and the flags are derived from register_y
tya(c) == update_zero_and_negative_flags([c EXCEPT !.register_a = c.register_y], c.register_y)

\* fn inc: the flags are derived from register_x
IncWith(c, r) ==
    IF r.panic # "none" THEN Panic(c, r.panic)
    ELSE update_zero_and_negative_flags(
             mem_write(c, r.addr, wrapping_add_u8(r.val, 1)), c.register_x)

inc(c, mode) == IncWith(c, ReadOperand(c, mode))

\* fn inx
inx(c) == SetX(c, wrapping_add_u8(c.register_x, 1))

\* fn iny
iny(c) == SetY(c, wrapping_add_u8(c.register_y, 1))

(***************************************************************************)
(* run(): the dispatch of one fetched descriptor, and one loop iteration   *)
(***************************************************************************)
\* the arms of `match opcode.op` that are todo!()
Unimplemented ==
    {"ADC", "BCC", "BCS", "BEQ", "BIT", "BMI", "BNE", "BPL", "BVC", "BVS",
     "CMP", "CPX", "CPY", "JMP", "JSR", "LSR", "PHA", "PHP", "PLP", "ROL",
     "ROR", "RTI", "RTS", "SBC"}

\* the arms of `match opcode.op` that call a handler or change a flag
Implemented ==
    {"AND", "ASL", "CLC", "CLD", "CLI", "CLV", "DEC", "DEX", "DEY", "EOR",
     "INC", "INX", "INY", "LDA", "LDX", "LDY", "NOP", "ORA", "PLA", "SEC",
     "SED", "SEI", "STA", "STX", "STY", "TAX", "TAY", "TSX", "TXA", "TXS", "TYA"}

\* (variant: an arm left empty instead of todo!())
TodoIsNop(c) == c

\* todo!()
Todo(c) == Panic(c, PANIC_TODO)

\* `match opcode.op { ... }` without the "BRK" arm
DispatchOn(c, op, mode) ==
    CASE op \in Unimplemented -> Todo(c)
      [] op = "AND" -> and(c, mode)
      [] op = "ASL" -> asl(c, mode)
      [] op = "CLC" -> [c EXCEPT !.status = remove(c.status, CARRY)]
      [] op = "CLD" -> [c EXCEPT !.status = remove(c.status, DECIMAL_MODE)]
      [] op = "CLI" -> [c EXCEPT !.status = remove(c.status, INTERRUPT_DISABLE)]
      [] op = "CLV" -> [c EXCEPT !.status = remove(c.status, OVERFLOW)]
      [] op = "DEC" -> dec(c, mode)
      [] op = "DEX" -> dex(c)
      [] op = "DEY" -> dey(c)
      [] op = "EOR" -> eor(c, mode)
      [] op = "INC" -> inc(c, mode)
      [] op = "INX" -> inx(c)
      [] op = "INY" -> iny(c)
      [] op = "LDA" -> lda(c, mode)
      [] op = "LDX" -> ldx(c, mode)
      [] op = "LDY" -> ldy(c, mode)
      [] op = "NOP" -> c
      [] op = "ORA" -> ora(c, mode)
      [] op = "PLA" -> pla(c)
      [] op = "SEC" -> [c EXCEPT !.status = insert(c.status, CARRY)]
      [] op = "SED" -> [c EXCEPT !.status = insert(c.status, DECIMAL_MODE)]
      [] op = "SEI" -> [c EXCEPT !.status = insert(c.status, INTERRUPT_DISABLE)]
      [] op = "STA" -> sta(c, mode)
      [] op = "STX" -> stx(c, mode)
      [] op = "STY" -> sty(c, mode)
      [] op = "TAX" -> tax(c)
      [] op = "TAY" -> tay(c)
      [] op = "TSX" -> tsx(c)
      [] op = "TXA" -> txa(c)
      [] op = "TXS" -> [c EXCEPT !.stack_pointer = c.register_x]
      [] op = "TYA" -> tya(c)
      [] OTHER -> Panic(c, PANIC_INVALID)

Dispatch(c, opcode) == DispatchOn(c, opcode.op, opcode.addressing_mode)

\* self.program_counter += n
PcSet(c, r) ==
    IF c.panic # "none" THEN c
    ELSE IF r.panic # "none" THEN Panic(c, r.panic)
    ELSE [c EXCEPT !.program_counter = r.val]

AdvancePc(c, n) == PcSet(c, add_u16(c.program_counter, n, c.overflow_checks))

\* (variant: the whole length is added although the opcode byte was counted)
SkipWholeLength(c, opcode) == AdvancePc(c, opcode.bytes)

\* (variant: the program counter is put back on the opcode byte)
BackToOpcode(c, opcode) ==
    IF c.panic # "none" THEN c ELSE [c EXCEPT !.program_counter = c.program_counter - 1]

\* self.program_counter += (opcode.bytes - 1) as u16
SkipOperands(c, opcode) == AdvancePc(c, opcode.bytes - 1)

\* (variant: the "BRK" arm does nothing and the loop goes on)
DecodedBrkGoesOn(c1, opcode) ==
    IF c1.panic # "none" THEN [c |-> c1, returned |-> FALSE]
    ELSE IF opcode = NoOpcode THEN [c |-> Panic(c1, PANIC_INVALID), returned |-> FALSE]
    ELSE IF opcode.op = "BRK" THEN [c |-> SkipOperands(c1, opcode), returned |-> FALSE]
    ELSE [c |-> SkipOperands(Dispatch(c1, opcode), opcode), returned |-> FALSE]

\* One iteration of the loop of run(): [c, returned].  returned is TRUE when
\* the iteration left the loop through the "BRK" arm.
Decoded(c1, opcode) ==
    IF c1.panic # "none" THEN [c |-> c1, returned |-> FALSE]
    ELSE IF opcode = NoOpcode THEN [c |-> Panic(c1, PANIC_INVALID), returned |-> FALSE]
    ELSE IF opcode.op = "BRK" THEN [c |-> c1, returned |-> TRUE]
    ELSE [c |-> SkipOperands(Dispatch(c1, opcode), opcode), returned |-> FALSE]

Fetched(c, code) ==
    IF code.panic # "none" THEN [c |-> Panic(c, code.panic), returned |-> FALSE]
    ELSE Decoded(AdvancePc(c, 1), find(code.val))

run_iteration(c) == Fetched(c, mem_read(c, c.program_counter))

(***************************************************************************)
(* Construction, reset and load                                            *)
(***************************************************************************)
\* fn new; checked is the build's overflow-checks setting
new(checked) ==
    [register_a |-> 0, register_x |-> 0, register_y |-> 0,
     program_counter |-> 0, stack_pointer |-> 0,
     status |-> from_bits_truncate(STATUS_INIT),
     memory |-> <<>>,
     panic |-> "none", overflow_checks |-> checked]

\* fn reset
ResetPc(c1, v) ==
    IF v.panic # "none" THEN Panic(c1, v.panic) ELSE [c1 EXCEPT !.program_counter = v.val]

reset(c) ==
    IF c.panic # "none" THEN c
    ELSE ResetPc([c EXCEPT !.register_a = 0, !.register_x = 0, !.register_y = 0,
                           !.stack_pointer = STACK_RESET,
                           !.status = from_bits_truncate(STATUS_INIT)],
                 mem_read_u16(c, RESET_VECTOR))

\* A Vec<u8>: its length and its non-zero bytes by position
ProgByte(program, i) == IF i \in DOMAIN program.bytes THEN program.bytes[i] ELSE 0

\* vec![...] from a sequence of bytes
Vec(seq) ==
    [len |-> Len(seq),
     bytes |-> [i \in {j - 1 : j \in {k \in 1 .. Len(seq) : seq[k] # 0}} |-> seq[i + 1]]]

\* a Vec of n bytes, all zero but the last, which is b
ZerosThen(n, b) == [len |-> n, bytes |-> [i \in {n - 1} |-> b]]

\* (variant: the copy starts one byte late)
CopyOneLate(memory, start, program) ==
    LET keep == {a \in DOMAIN memory : a < start + 1 \/ a >= start + 1 + program.len}
        put == {start + 1 + i : i \in DOMAIN program.bytes}
    IN  [a \in keep \cup put |-> IF a \in put THEN program.bytes[a - start - 1] ELSE memory[a]]

\* self.memory[0x8000 .. 0x8000 + len].copy_from_slice(&program[..]), range in bounds
CopyFromSlice(memory, start, program) ==
    LET keep == {a \in DOMAIN memory : a < start \/ a >= start + program.len}
        put == {start + i : i \in DOMAIN program.bytes}
    IN  [a \in keep \cup put |-> IF a \in put THEN program.bytes[a - start] ELSE memory[a]]

\* fn load
load(c, program) ==
    IF c.panic # "none" THEN c
    ELSE IF PROGRAM_ORIGIN + program.len > MEMORY_LEN THEN Panic(c, PANIC_INDEX)
    ELSE mem_write_u16([c EXCEPT !.memory = CopyFromSlice(c.memory, PROGRAM_ORIGIN, program)],
                       RESET_VECTOR, PROGRAM_ORIGIN)


(***************************************************************************)
(* Bounds and inputs of the lifecycle specification                        *)
(***************************************************************************)
MaxLoads == 1
MaxPokes == 1
MaxRuns == 1

\* the programs of the tests of cpu.rs
TestLoadData == Vec(<<\hA9, \h05, \h00>>)

TestZeroFlag == Vec(<<\hA9, \h00, \h00>>)

TestFiveOps == Vec(<<\hA9, \hC0, \hAA, \hE8, \h00>>)

TestInxOverflow == Vec(<<\hA9, \hFF, \hAA, \hE8, \hE8, \h00>>)

TestLdaFromMemory == Vec(<<\hA5, \h10, \h00>>)

TestLdaStaDecAnd == Vec(<<\hA9, \hA2, \h85, \h87, \hC6, \h87, \hC6, \h87, \h25, \h87>>)

TestLdaEorAnd == Vec(<<\hA9, \h76, \h49, \hAC, \h29, \hAC>>)

TestIncOra == Vec(<<\hE6, \h26, \h05, \h26>>)

TestPrograms ==
    {TestLoadData, TestZeroFlag, TestFiveOps, TestInxOverflow, TestLdaFromMemory,
     TestLdaStaDecAnd, TestLdaEorAnd, TestIncOra}

\* programs that end in each kind of panic, or shift, or pull
OtherPrograms ==
    { Vec(<<\hA9, \h80, \h00>>),
      Vec(<<\hA2, \hFF, \h9A, \hE8, \h68, \hEA, \h69, \h01>>),
      Vec(<<\hA9, \h81, \h85, \h10, \h06, \h10, \hA4, \h10, \h02>>),
      Vec(<<\hA9, \h41, \h0A, \h00>>),
      Vec(<<\h38, \hF8, \hB8, \hA0, \h00, \h88, \h8C, \hFE, \hFF, \hAD, \hFF, \hFF>>) }

\* programs that reach the top of the address space
LongPrograms ==
    { ZerosThen(32764, \hEA), ZerosThen(32765, \hEA), ZerosThen(32766, \hEA),
      ZerosThen(32767, \hEA), ZerosThen(32768, \hEA), ZerosThen(32769, \hEA) }

Programs == TestPrograms \cup OtherPrograms \cup LongPrograms

\* the direct mem_write calls of a test's setup
PokeAddrs == {\h10, \h26, \h01FE, \hFFFC, \hFFFD, \hFFFF}

PokeBytes == {\h55}

NoProgram == Vec(<<>>)

Trace(call, pre, opcode, program) ==
    [call |-> call, pre |-> pre, opcode |-> opcode, program |-> program]

PhaseAfter(c, otherwise) == IF c.panic # "none" THEN "panicked" ELSE otherwise

(***************************************************************************)
(* The lifecycle specification: a CPU is constructed, then its caller      *)
(* writes memory, loads, resets and runs it.                               *)
(***************************************************************************)
Init ==
    /\ cpu \in {new(checked) : checked \in BOOLEAN}
    /\ phase = "idle"
    /\ last = Trace("new", cpu, NoOpcode, NoProgram)
    /\ entry = cpu
    /\ loads = 0
    /\ pokes = 0
    /\ runs = 0

Callable == phase \in {"idle", "halted"}

\* cpu.mem_write(addr, data), called directly
MemWrite(addr, data) ==
    /\ Callable
    /\ pokes < MaxPokes
    /\ cpu' = mem_write(cpu, addr, data)
    /\ phase' = PhaseAfter(cpu', "idle")
    /\ last' = Trace("mem_write", cpu, NoOpcode, NoProgram)
    /\ pokes' = pokes + 1
    /\ UNCHANGED <<entry, loads, runs>>

\* cpu.load(program)
Load(program) ==
    /\ Callable
    /\ loads < MaxLoads
    /\ cpu' = load(cpu, program)
    /\ phase' = PhaseAfter(cpu', "idle")
    /\ last' = Trace("load", cpu, NoOpcode, program)
    /\ loads' = loads + 1
    /\ UNCHANGED <<entry, pokes, runs>>

\* cpu.reset()
Reset ==
    /\ Callable
    /\ cpu' = reset(cpu)
    /\ phase' = PhaseAfter(cpu', "idle")
    /\ last' = Trace("reset", cpu, NoOpcode, NoProgram)
    /\ UNCHANGED <<entry, loads, pokes, runs>>

\* cpu.run() is called: the loop is entered
Run ==
    /\ Callable
    /\ runs < MaxRuns
    /\ phase' = "running"
    /\ last' = Trace("run", cpu, NoOpcode, NoProgram)
    /\ entry' = cpu
    /\ runs' = runs + 1
    /\ UNCHANGED <<cpu, loads, pokes>>

\* cpu.load_and_run(program): load, reset, and the loop of run() is entered
LoadAndRun(program) ==
    /\ Callable
    /\ loads < MaxLoads
    /\ runs < MaxRuns
    /\ cpu' = reset(load(cpu, program))
    /\ phase' = PhaseAfter(cpu', "running")
    /\ last' = Trace("load_and_run", cpu, NoOpcode, program)
    /\ loads' = loads + 1
    /\ entry' = cpu'
    /\ runs' = runs + 1
    /\ UNCHANGED pokes

\* one iteration of the loop of run()
StepTo(r) ==
    /\ cpu' = r.c
    /\ phase' = PhaseAfter(r.c, IF r.returned THEN "halted" ELSE "running")

Step ==
    /\ phase = "running"
    /\ StepTo(run_iteration(cpu))
    /\ last' = Trace("step", cpu,
                     IF InBounds(cpu.program_counter)
                     THEN find(ReadByte(cpu.memory, cpu.program_counter))
                     ELSE NoOpcode,
                     NoProgram)
    /\ UNCHANGED <<entry, loads, pokes, runs>>

Next ==
    \/ \E addr \in PokeAddrs, data \in PokeBytes : MemWrite(addr, data)
    \/ \E program \in Programs : Load(program)
    \/ \E program \in Programs : LoadAndRun(program)
    \/ Reset
    \/ Run
    \/ Step

Spec == Init /\ [][Next]_vars


(***************************************************************************)
(* The instruction specification: run() is entered on a CPU whose public   *)
(* registers and whose memory the caller has set, and the loop runs.       *)
(* The entry states are samples: one instruction of every opcode at the    *)
(* program counter, over boundary values of the registers, the operand     *)
(* bytes and the data it addresses; and the states in which the tests of   *)
(* cpu.rs enter run().                                                     *)
(***************************************************************************)
SampleA == {\h00, \h01, \h80, \hFF}

SampleX == {\h00, \h01, \hFF}

SampleY == {\h00, \hFF}

\* <<status, stack_pointer>>
SampleFlags == {<<\h24, \hFD>>, <<\hC3, \hFF>>}

SamplePc == {\h8000, \hFFFD}

\* the two bytes that follow the opcode
SampleOperands == {<<\h10, \h00>>, <<\hFF, \h00>>, <<\hFE, \hFF>>, <<\hFF, \hFF>>}

\* data in page 0, in the stack page and where the pointers of page 0 lead
DataImage ==
    (\h0000 :> \h34) @@ (\h0001 :> \h12) @@ (\h000F :> \h40) @@ (\h0010 :> \h80) @@
    (\h0011 :> \hFF) @@ (\h0012 :> \h02) @@ (\h00FD :> \h01) @@ (\h00FE :> \hFF) @@
    (\h00FF :> \hFF) @@ (\h0100 :> \h77) @@ (\h0101 :> \h01) @@ (\h01FE :> \h81) @@
    (\h0200 :> \h7F) @@ (\h1234 :> \h99) @@ (\h007F :> \h81) @@ (\h34FF :> \hAA) @@ (\h35FE :> \h01) @@
    (\hFF80 :> \h08) @@ (\hFFFE :> \h03)

SampleImages == {<<>>, DataImage}

ImplementedCodes == {o.code : o \in {d \in CPU_OPS_CODES : d.op \in Implemented}}

\* memory with one instruction written at pc (the bytes that fit below MEMORY_LEN)
WithInstruction(memory, pc, code, operands) ==
    LET b == <<code, operands[1], operands[2]>>
        at == {a \in pc .. pc + 2 : InBounds(a)}
        nz == {a \in at : b[a - pc + 1] # 0}
    IN  [a \in (DOMAIN memory \ at) \cup nz |-> IF a \in nz THEN b[a - pc + 1] ELSE memory[a]]

Prepared(checked, a, x, y, flags, pc, memory) ==
    [register_a |-> a, register_x |-> x, register_y |-> y,
     program_counter |-> pc, stack_pointer |-> flags[2], status |-> flags[1],
     memory |-> memory, panic |-> "none", overflow_checks |-> checked]

\* every implemented opcode over the samples
SampledEntries ==
    { Prepared(checked, a, x, y, flags, pc, WithInstruction(image, pc, code, operands)) :
        checked \in BOOLEAN, a \in SampleA, x \in SampleX, y \in SampleY,
        flags \in SampleFlags, pc \in SamplePc, image \in SampleImages,
        code \in ImplementedCodes, operands \in SampleOperands }

\* every other byte as the opcode, and every byte at the top of the address space
OtherEntries ==
    { Prepared(checked, \h80, \h01, \hFF, <<\h24, \hFD>>, pc,
               WithInstruction(DataImage, pc, code, <<\h10, \h00>>)) :
        checked \in BOOLEAN, pc \in {\h8000}, code \in Byte \ ImplementedCodes }
    \cup
    { Prepared(checked, \h80, \h01, \hFF, <<\h24, \hFD>>, pc,
               WithInstruction(DataImage, pc, code, <<\h10, \h00>>)) :
        checked \in BOOLEAN, pc \in {\hFFFE, \hFFFF}, code \in Byte }

\* LDA #v; BRK for every byte v
LoadImmediate(v) == Vec(<<\hA9, v, \h00>>)

\* LDA a; BRK
LoadZeroPage(a) == Vec(<<\hA5, a, \h00>>)

\* let mut cpu = CPU::new(); cpu.load_and_run(program), at the entry of run()
FreshEntry(checked, program) == reset(load(new(checked), program))

\* the same after cpu.mem_write(addr, data)
PokedEntry(checked, addr, data, program) ==
    reset(load(mem_write(new(checked), addr, data), program))

TestEntries ==
    { FreshEntry(checked, program) :
        checked \in BOOLEAN, program \in TestPrograms \cup {LoadImmediate(v) : v \in Byte} }
    \cup
    { PokedEntry(checked, addr, data, LoadZeroPage(addr)) :
        checked \in BOOLEAN, addr \in {\h00, \h10, \hFF}, data \in {\h00, \h55, \h80, \hFF} }

InitStep ==
    /\ cpu \in SampledEntries \cup OtherEntries \cup TestEntries
    /\ phase = "running"
    /\ last = Trace("run", cpu, NoOpcode, NoProgram)
    /\ entry = cpu
    /\ loads = 0
    /\ pokes = 0
    /\ runs = 1

NextStep == Step

SpecStep == InitStep /\ [][NextStep]_vars

(***************************************************************************)
(* The helpers of impl CPU called one at a time, as the tests of the       *)
(* module may call them, on CPUs whose fields a caller has set.  last      *)
(* records the call, its arguments, what it returned and the call before.  *)
(***************************************************************************)
NoCall == [call |-> "", args |-> <<>>, pre |-> <<>>]

Constructed(c) ==
    [call |-> "new", pre |-> c, opcode |-> NoOpcode, program |-> NoProgram,
     args |-> <<>>, ret |-> 0, prev |-> NoCall]

Called(call, pre, args, ret) ==
    [call |-> call, pre |-> pre, opcode |-> NoOpcode, program |-> NoProgram,
     args |-> args, ret |-> ret,
     prev |-> [call |-> last.call, args |-> last.args, pre |-> last.pre]]

\* the CPU after a helper that takes &self returned r or panicked
Returned(c, r) == IF r.panic # "none" THEN Panic(c, r.panic) ELSE c

(***************************************************************************)
(* Memory helpers: mem_read, mem_write, mem_read_u16, mem_write_u16        *)
(***************************************************************************)
MemAddrs == {\h0000, \h00FF, \h0100, \h7FFF, \hFFFC, \hFFFD, \hFFFE, \hFFFF}

MemBytes == {\h00, \h55, \hFF}

MemWords == {\h0000, \h8000, \h1234, \hFFFF}

InitMem ==
    /\ cpu \in {[new(checked) EXCEPT !.memory = image] :
                   checked \in BOOLEAN, image \in SampleImages}
    /\ phase = "idle"
    /\ last = Constructed(cpu)
    /\ entry = cpu
    /\ loads = 0
    /\ pokes = 0
    /\ runs = 0

\* cpu.mem_read(addr), first or right after a write
CallMemRead(addr) ==
    /\ phase \in {"idle", "written"}
    /\ cpu' = Returned(cpu, mem_read(cpu, addr))
    /\ phase' = PhaseAfter(cpu', "done")
    /\ last' = Called("mem_read", cpu, <<addr>>, mem_read(cpu, addr).val)
    /\ UNCHANGED <<entry, loads, pokes, runs>>

\* cpu.mem_write(addr, data)
CallMemWrite(addr, data) ==
    /\ phase = "idle"
    /\ cpu' = mem_write(cpu, addr, data)
    /\ phase' = PhaseAfter(cpu', "written")
    /\ last' = Called("mem_write", cpu, <<addr, data>>, 0)
    /\ UNCHANGED <<entry, loads, pokes, runs>>

\* cpu.mem_read_u16(pos), first or right after a write
CallMemReadU16(pos) ==
    /\ phase \in {"idle", "written"}
    /\ cpu' = Returned(cpu, mem_read_u16(cpu, pos))
    /\ phase' = PhaseAfter(cpu', "done")
    /\ last' = Called("mem_read_u16", cpu, <<pos>>, mem_read_u16(cpu, pos).val)
    /\ UNCHANGED <<entry, loads, pokes, runs>>

\* cpu.mem_write_u16(pos, data)
CallMemWriteU16(pos, data) ==
    /\ phase = "idle"
    /\ cpu' = mem_write_u16(cpu, pos, data)
    /\ phase' = PhaseAfter(cpu', "written")
    /\ last' = Called("mem_write_u16", cpu, <<pos, data>>, 0)
    /\ UNCHANGED <<entry, loads, pokes, runs>>

NextMem ==
    \/ \E addr \in MemAddrs : CallMemRead(addr)
    \/ \E addr \in MemAddrs, data \in MemBytes : CallMemWrite(addr, data)
    \/ \E pos \in MemAddrs : CallMemReadU16(pos)
    \/ \E pos \in MemAddrs, data \in MemWords : CallMemWriteU16(pos, data)

SpecMem == InitMem /\ [][NextMem]_vars

(***************************************************************************)
(* The resolver: get_operand_address on a CPU whose program counter is at  *)
(* the operand bytes.                                                      *)
(***************************************************************************)
\* <<register_x, register_y>>
IndexPairs == {<<\h00, \h00>>, <<\h01, \hFF>>, <<\hFF, \h01>>, <<\h80, \h80>>}

\* pages 0 and 1 filled with bytes that differ from their neighbours and across pages
PointerImage == [a \in 0 .. 511 |-> ((a * 7 + 3) % 251) + 1]

OperandPc == PROGRAM_ORIGIN + 1

\* memory with operand bytes b and hi at pc
WithOperand(memory, pc, b, hi) == WriteByte(WriteByte(memory, pc, b), pc + 1, hi)

AddrEntries ==
    { Prepared(checked, 0, xy[1], xy[2], <<\h24, \hFD>>, OperandPc,
               WithOperand(image, OperandPc, b, \h12)) :
        checked \in BOOLEAN, xy \in IndexPairs, b \in Byte,
        image \in {DataImage, PointerImage} }

InitAddr ==
    /\ cpu \in AddrEntries
    /\ phase = "idle"
    /\ last = Constructed(cpu)
    /\ entry = cpu
    /\ loads = 0
    /\ pokes = 0
    /\ runs = 0

\* cpu.get_operand_address(&mode)
CallGetOperandAddress(mode) ==
    /\ phase = "idle"
    /\ cpu' = Returned(cpu, get_operand_address(cpu, mode))
    /\ phase' = PhaseAfter(cpu', "done")
    /\ last' = Called("get_operand_address", cpu, <<mode>>,
                      get_operand_address(cpu, mode).val)
    /\ UNCHANGED <<entry, loads, pokes, runs>>

NextAddrs == \E mode \in AddressingMode : CallGetOperandAddress(mode)

SpecAddr == InitAddr /\ [][NextAddrs]_vars

(***************************************************************************)
(* The flag derivation: update_zero_and_negative_flags on every Status     *)
(***************************************************************************)
FlagEntries ==
    { Prepared(checked, 0, 0, 0, <<status, \hFD>>, PROGRAM_ORIGIN, <<>>) :
        checked \in BOOLEAN, status \in Byte }

InitFlags ==
    /\ cpu \in FlagEntries
    /\ phase = "idle"
    /\ last = Constructed(cpu)
    /\ entry = cpu
    /\ loads = 0
    /\ pokes = 0
    /\ runs = 0

\* cpu.update_zero_and_negative_flags(result)
CallUpdateFlags(result) ==
    /\ phase = "idle"
    /\ cpu' = update_zero_and_negative_flags(cpu, result)
    /\ phase' = PhaseAfter(cpu', "done")
    /\ last' = Called("update_zero_and_negative_flags", cpu, <<result>>, 0)
    /\ UNCHANGED <<entry, loads, pokes, runs>>

NextFlags == \E result \in Byte : CallUpdateFlags(result)

SpecFlags == InitFlags /\ [][NextFlags]_vars

(***************************************************************************)
(* The stack helpers: stack_push, stack_pop, stack_push_u16, stack_pop_u16.*)
(* runs counts the calls of one kind made in a row.                        *)
(***************************************************************************)
MaxCalls == 256

SampleSp == {\h00, \h01, \h80, \hFD, \hFF}

PushBytes == {\h00, \h5A, \hFF}

PushWords == {\h0000, \h8000, \h12FE, \hFFFF}

StackEntries ==
    { Prepared(checked, 0, 0, 0, <<\h24, sp>>, PROGRAM_ORIGIN, image) :
        checked \in BOOLEAN, sp \in SampleSp, image \in SampleImages }

InitStack ==
    /\ cpu \in StackEntries
    /\ phase = "idle"
    /\ last = Constructed(cpu)
    /\ entry = cpu
    /\ loads = 0
    /\ pokes = 0
    /\ runs = 0

\* cpu.stack_push(data), the first or the next of a row of pushes of one byte
CallStackPush(data) ==
    /\ phase \in {"idle", "pushing"}
    /\ phase = "pushing" => data = last.args[1]
    /\ runs < MaxCalls
    /\ cpu' = stack_push(cpu, data)
    /\ phase' = PhaseAfter(cpu', "pushing")
    /\ last' = Called("stack_push", cpu, <<data>>, 0)
    /\ runs' = runs + 1
    /\ UNCHANGED <<entry, loads, pokes>>

\* cpu.stack_pop(), the first or the next of a row of pops
CallStackPop ==
    /\ phase \in {"idle", "popping"}
    /\ runs < MaxCalls
    /\ cpu' = stack_pop(cpu).c
    /\ phase' = PhaseAfter(cpu', "popping")
    /\ last' = Called("stack_pop", cpu, <<>>, stack_pop(cpu).val)
    /\ runs' = runs + 1
    /\ UNCHANGED <<entry, loads, pokes>>

\* cpu.stack_pop() right after a push
CallStackPopPushed ==
    /\ phase = "pushing"
    /\ cpu' = stack_pop(cpu).c
    /\ phase' = PhaseAfter(cpu', "done")
    /\ last' = Called("stack_pop", cpu, <<>>, stack_pop(cpu).val)
    /\ UNCHANGED <<entry, loads, pokes, runs>>

\* cpu.stack_push_u16(data)
CallStackPushU16(data) ==
    /\ phase = "idle"
    /\ cpu' = stack_push_u16(cpu, data)
    /\ phase' = PhaseAfter(cpu', "pushed16")
    /\ last' = Called("stack_push_u16", cpu, <<data>>, 0)
    /\ UNCHANGED <<entry, loads, pokes, runs>>

\* cpu.stack_pop_u16(), first or right after stack_push_u16
CallStackPopU16 ==
    /\ phase \in {"idle", "pushed16"}
    /\ cpu' = stack_pop_u16(cpu).c
    /\ phase' = PhaseAfter(cpu', "done")
    /\ last' = Called("stack_pop_u16", cpu, <<>>, stack_pop_u16(cpu).val)
    /\ UNCHANGED <<entry, loads, pokes, runs>>

NextStack ==
    \/ \E data \in PushBytes : CallStackPush(data)
    \/ CallStackPop
    \/ CallStackPopPushed
    \/ \E data \in PushWords : CallStackPushU16(data)
    \/ CallStackPopU16

SpecStack == InitStack /\ [][NextStack]_vars

(***************************************************************************)
(* run() to its end: the loop iterates for as long as it has neither       *)
(* returned nor panicked.  Besides entries of SpecStep, run() is entered   *)
(* on memories filled up to the top with one instruction byte, so that the *)
(* loop iterates until the program counter reaches the top.                *)
(***************************************************************************)
SledLength == 32

SledStarts == {MEMORY_LEN - SledLength, MEMORY_LEN - SledLength + 1,
               MEMORY_LEN - SledLength + 2}

\* NOP, INX, PLA, LDA #, LDA absolute, STA absolute
SledCodes == {\hEA, \hE8, \h68, \hA9, \hAD, \h8D}

Sled(from, code) == [a \in from .. MEMORY_LEN - 1 |-> code]

SledEntries ==
    { Prepared(checked, \h01, \h00, \h00, <<\h24, \hFD>>, from, Sled(from, code)) :
        checked \in BOOLEAN, from \in SledStarts, code \in SledCodes }

\* the entries of the tests, every byte as the first opcode, and the filled memories
RunEntries ==
    {FreshEntry(checked, program) : checked \in BOOLEAN, program \in TestPrograms}
    \cup OtherEntries \cup SledEntries

InitRun ==
    /\ cpu \in RunEntries
    /\ phase = "running"
    /\ last = Trace("run", cpu, NoOpcode, NoProgram)
    /\ entry = cpu
    /\ loads = 0
    /\ pokes = 0
    /\ runs = 1

SpecRun == InitRun /\ [][NextStep]_vars /\ WF_vars(Step)


(***************************************************************************)
(* Properties                                                              *)
(*                                                                         *)
(* last.pre is the CPU before the last loop iteration and last.opcode the  *)
(* descriptor it fetched; cpu is the CPU after it.                         *)
(***************************************************************************)
Stepped == last.call = "step"

\* the last iteration dispatched a handler of mnemonic op and did not panic
Completed(op) == Stepped /\ last.opcode.op = op /\ cpu.panic = "none"

\* the address of the opcode byte of the last iteration
OpcodeAddr == last.pre.program_counter

\* the operand bytes that follow the opcode, as they were before the iteration
Operand1 == ReadByte(last.pre.memory, OpcodeAddr + 1)

Operand2 == ReadByte(last.pre.memory, OpcodeAddr + 2)

\* the CPU as the handler of the last iteration found it
AtHandler == [last.pre EXCEPT !.program_counter = OpcodeAddr + 1]

\* the operand of the last iteration: [panic, addr, val]
OperandOfLast == ReadOperand(AtHandler, last.opcode.addressing_mode)

ZeroIs(status, v) == contains(status, ZERO) <=> (v = 0)

NegativeIs(status, v) == contains(status, NEGATIVE) <=> (v >= 128)

Halted == phase = "halted"

Stopped == phase \in {"halted", "panicked"}

\* a byte of memory as it was when run() was entered
EntryByte(addr) == ReadByte(entry.memory, addr)

\* run() was entered by CPU::new().load_and_run(program)
EnteredFresh(program) ==
    /\ entry.memory = FreshEntry(FALSE, program).memory
    /\ [entry EXCEPT !.memory = <<>>, !.overflow_checks = FALSE]
          = [FreshEntry(FALSE, NoProgram) EXCEPT !.memory = <<>>]

\* run() was entered by CPU::new(), mem_write(addr, data), load_and_run(program)
EnteredPoked(addr, data, program) ==
    /\ entry.memory = PokedEntry(FALSE, addr, data, program).memory
    /\ [entry EXCEPT !.memory = <<>>, !.overflow_checks = FALSE]
          = [FreshEntry(FALSE, NoProgram) EXCEPT !.memory = <<>>]

LdaLoads(r) ==
    /\ r.panic = "none"
    /\ cpu.register_a = r.val
    /\ ZeroIs(cpu.status, r.val)
    /\ NegativeIs(cpu.status, r.val)

\* C1: LDA leaves the accumulator equal to the value of its operand, whatever the
\* addressing mode, with Zero set iff the value is 0 and Negative set iff its bit 7
\* is set; load_and_run of [0xA9, v, 0x00] on a fresh CPU stops halted with
\* accumulator v, and so does [0xA5, a, 0x00] after mem_write(a, v).
C1_LdaLoadsOperand ==
    /\ Completed("LDA") =>
          /\ LdaLoads(OperandOfLast)
          /\ last.opcode.addressing_mode = "Immediate" => cpu.register_a = Operand1
          /\ last.opcode.addressing_mode = "ZeroPage" =>
                cpu.register_a = ReadByte(last.pre.memory, Operand1)
    /\ (Stopped /\ EnteredFresh(LoadImmediate(EntryByte(PROGRAM_ORIGIN + 1))))
          => Halted /\ cpu.register_a = EntryByte(PROGRAM_ORIGIN + 1)
    /\ (Stopped /\ EnteredPoked(EntryByte(PROGRAM_ORIGIN + 1),
                                EntryByte(EntryByte(PROGRAM_ORIGIN + 1)),
                                LoadZeroPage(EntryByte(PROGRAM_ORIGIN + 1))))
          => Halted /\ cpu.register_a = EntryByte(EntryByte(PROGRAM_ORIGIN + 1))

\* an LDA through a pointer of page 0 loaded a negative byte
C1_Witness ==
    /\ Completed("LDA")
    /\ last.opcode.addressing_mode = "Indirect_Y"
    /\ cpu.register_a = \hAA
    /\ contains(cpu.status, NEGATIVE)


\* the 16-bit little-endian value at addr of a memory
Word(memory, addr) == ReadByte(memory, addr) + 256 * ReadByte(memory, addr + 1)

\* C2: reset() zeroes A, X and Y, sets the stack pointer to 0xFD, sets Status to
\* exactly InterruptDisable and Negative, sets the program counter to the 16-bit
\* little-endian value at 0xFFFC/0xFFFD, and leaves memory unchanged.
C2_ResetClaim ==
    last.call = "reset" =>
        /\ cpu.panic = "none"
        /\ cpu.register_a = 0
        /\ cpu.register_x = 0
        /\ cpu.register_y = 0
        /\ cpu.stack_pointer = \hFD
        /\ cpu.status = INTERRUPT_DISABLE + NEGATIVE
        /\ cpu.program_counter = Word(last.pre.memory, \hFFFC)
        /\ cpu.memory = last.pre.memory

\* the last call was load(program) or load_and_run(program)
Loaded == last.call \in {"load", "load_and_run"}

\* memory holds program[i] at PROGRAM_ORIGIN + i for every i < len(program) whose
\* address is not in skip.  (Bytes that are 0 on both sides are in neither
\* function, so the addresses to compare are those of the non-zero bytes.)
HoldsProgram(memory, program, skip) ==
    \A a \in ({PROGRAM_ORIGIN + i : i \in DOMAIN program.bytes}
              \cup {b \in DOMAIN memory :
                       b >= PROGRAM_ORIGIN /\ b < PROGRAM_ORIGIN + program.len}) \ skip :
        ReadByte(memory, a) = ProgByte(program, a - PROGRAM_ORIGIN)

\* load fails, writing nothing, when the program would extend past address 0xFFFF
FailsPastTop ==
    (Loaded /\ PROGRAM_ORIGIN + last.program.len > 65536) =>
        cpu.panic # "none" /\ cpu.memory = last.pre.memory

\* after an accepted load the reset vector holds 0x8000 and reset() starts there
VectorInstalled ==
    (Loaded /\ cpu.panic = "none") =>
        /\ ReadByte(cpu.memory, \hFFFC) = \h00
        /\ ReadByte(cpu.memory, \hFFFD) = \h80
        /\ reset(cpu).program_counter = \h8000
        /\ last.call = "load_and_run" => cpu.program_counter = \h8000

\* C3 as stated: after an accepted load, memory holds program[i] at 0x8000 + i for
\* every i < len(program), the reset vector holds 0x8000 and a following reset()
\* starts at 0x8000; load fails instead of writing past the top.
C3_LoadClaim ==
    /\ (Loaded /\ cpu.panic = "none") => HoldsProgram(cpu.memory, last.program, {})
    /\ VectorInstalled
    /\ FailsPastTop

\* C3 (amended): after an accepted load, memory holds program[i] at 0x8000 + i for
\* every i < len(program) except at the two addresses of the reset vector, 0xFFFC and
\* 0xFFFD, which hold 0x8000 little-endian whatever the program has there; a
\* following reset() starts at 0x8000; load fails instead of writing past the top.
C3_LoadAmended ==
    /\ (Loaded /\ cpu.panic = "none")
          => HoldsProgram(cpu.memory, last.program, {\hFFFC, \hFFFD})
    /\ VectorInstalled
    /\ FailsPastTop

\* a program that ends at 0xFFFE was loaded, last byte included
C3_Witness ==
    /\ last.call = "load"
    /\ cpu.panic = "none"
    /\ last.program.len = 32767
    /\ ReadByte(cpu.memory, \hFFFE) = \hEA
    /\ Word(cpu.memory, \hFFFC) = \h8000


\* C4: when run() fetches BRK at address p the loop stops at once, with the program
\* counter p + 1 and registers, stack pointer, Status and memory as they were; no
\* iteration follows a halt.
C4_BrkHalts ==
    /\ (Stepped /\ last.opcode.op = "BRK") =>
          /\ Halted
          /\ cpu = [last.pre EXCEPT !.program_counter = OpcodeAddr + 1]
    /\ Halted => (Stepped /\ last.opcode.op = "BRK" /\ ~ ENABLED Step)

\* BRK was fetched at 0xFFFE with registers and memory set
C4_Witness ==
    /\ Halted
    /\ OpcodeAddr = \hFFFE
    /\ cpu.program_counter = \hFFFF
    /\ cpu.register_a = \h80
    /\ cpu.memory = last.pre.memory
    /\ cpu.memory # <<>>

\* C5: after an implemented instruction other than BRK, fetched at p with a
\* descriptor of length L in 1..3, completes, the program counter is p + L; the
\* handler itself leaves the program counter where the fetch put it, at p + 1.
C5_PcAdvance ==
    (Stepped /\ cpu.panic = "none" /\ last.opcode.op # "BRK") =>
        /\ last.opcode.op \in Implemented
        /\ last.opcode.bytes \in 1 .. 3
        /\ cpu.program_counter = OpcodeAddr + last.opcode.bytes
        /\ Dispatch(AtHandler, last.opcode).program_counter = OpcodeAddr + 1

\* a three-byte store completed
C5_Witness ==
    /\ Completed("STA")
    /\ last.opcode.bytes = 3
    /\ OpcodeAddr = \h8000
    /\ cpu.program_counter = \h8003

\* the byte at the operand address of the last iteration, before and after it
OperandBefore == ReadByte(last.pre.memory, OperandOfLast.addr)

OperandAfter == ReadByte(cpu.memory, OperandOfLast.addr)

\* C6: INX, INY, DEX, DEY change the register, and INC, DEC the memory byte, by
\* exactly +1 or -1 modulo 256 (0xFF + 1 = 0x00, 0x00 - 1 = 0xFF); the register
\* forms never panic and the memory forms complete whenever their operand can be
\* read, none with an overflow; two INX from 0xFF give X = 1 and INC then ORA of a
\* zero byte gives A = 1.
C6_IncDecWrap ==
    /\ (Stepped /\ last.opcode.op = "INX") =>
          cpu.panic = "none" /\ cpu.register_x = (last.pre.register_x + 1) % 256
    /\ (Stepped /\ last.opcode.op = "INY") =>
          cpu.panic = "none" /\ cpu.register_y = (last.pre.register_y + 1) % 256
    /\ (Stepped /\ last.opcode.op = "DEX") =>
          cpu.panic = "none" /\ cpu.register_x = (last.pre.register_x + 255) % 256
    /\ (Stepped /\ last.opcode.op = "DEY") =>
          cpu.panic = "none" /\ cpu.register_y = (last.pre.register_y + 255) % 256
    /\ (Stepped /\ last.opcode.op \in {"INC", "DEC"}) =>
          /\ cpu.panic # PANIC_OVERFLOW
          /\ OperandOfLast.panic = "none" => cpu.panic = "none"
    /\ Completed("INC") => OperandAfter = (OperandBefore + 1) % 256
    /\ Completed("DEC") => OperandAfter = (OperandBefore + 255) % 256
    /\ (Stopped /\ EnteredFresh(TestInxOverflow)) => Halted /\ cpu.register_x = 1
    /\ (Stopped /\ EnteredFresh(TestIncOra)) => Halted /\ cpu.register_a = 1

\* an INC wrapped a memory byte from 0xFF to 0x00
C6_Witness ==
    /\ Completed("INC")
    /\ OperandBefore = \hFF
    /\ OperandAfter = \h00

\* the bits of a byte, and the byte of a set of bits
BitsOf(v) == {i \in 0 .. 7 : Bit(v, i) = 1}

ByteOf(bits) ==
    (IF 0 \in bits THEN 1 ELSE 0) + (IF 1 \in bits THEN 2 ELSE 0)
    + (IF 2 \in bits THEN 4 ELSE 0) + (IF 3 \in bits THEN 8 ELSE 0)
    + (IF 4 \in bits THEN 16 ELSE 0) + (IF 5 \in bits THEN 32 ELSE 0)
    + (IF 6 \in bits THEN 64 ELSE 0) + (IF 7 \in bits THEN 128 ELSE 0)

\* the new accumulator is value, the flags are derived from it, nothing else moved
AccumulatorBecomes(value) ==
    /\ cpu.register_a = value
    /\ ZeroIs(cpu.status, value)
    /\ NegativeIs(cpu.status, value)
    /\ cpu.memory = last.pre.memory
    /\ cpu.register_x = last.pre.register_x
    /\ cpu.register_y = last.pre.register_y
    /\ cpu.stack_pointer = last.pre.stack_pointer

\* C7: AND, EOR and ORA leave the accumulator equal to a AND m, a XOR m and a OR m
\* for accumulator a and operand m, derive Zero/Negative from that value and change
\* neither memory nor X, Y or the stack pointer; the two composite test programs end
\* with accumulator 0b1010_0000 and 0b1000_1000.
C7_Logical ==
    /\ Completed("AND") =>
          AccumulatorBecomes(
              ByteOf(BitsOf(last.pre.register_a) \cap BitsOf(OperandOfLast.val)))
    /\ Completed("EOR") =>
          AccumulatorBecomes(
              ByteOf((BitsOf(last.pre.register_a) \cup BitsOf(OperandOfLast.val))
                     \ (BitsOf(last.pre.register_a) \cap BitsOf(OperandOfLast.val))))
    /\ Completed("ORA") =>
          AccumulatorBecomes(
              ByteOf(BitsOf(last.pre.register_a) \cup BitsOf(OperandOfLast.val)))
    /\ (Stopped /\ EnteredFresh(TestLdaStaDecAnd)) => Halted /\ cpu.register_a = \hA0
    /\ (Stopped /\ EnteredFresh(TestLdaEorAnd)) => Halted /\ cpu.register_a = \h88

\* an EOR of two bytes that share bits
C7_Witness ==
    /\ Completed("EOR")
    /\ last.pre.register_a = \h80
    /\ OperandOfLast.val = \hFF
    /\ cpu.register_a = \h7F


\* C8: after INC or DEC on a memory operand completes, Zero is set iff the byte
\* written back is 0 and Negative iff its bit 7 is set, whatever A, X and Y hold.
C8_IncDecFlags ==
    (Completed("INC") \/ Completed("DEC")) =>
        /\ ZeroIs(cpu.status, OperandAfter)
        /\ NegativeIs(cpu.status, OperandAfter)

\* the same statement for DEC alone, whose handler passes the written byte on
C8_DecFlags ==
    Completed("DEC") =>
        /\ ZeroIs(cpu.status, OperandAfter)
        /\ NegativeIs(cpu.status, OperandAfter)

\* what inc() derives the flags from
C8_IncFlagsFromX ==
    Completed("INC") =>
        /\ ZeroIs(cpu.status, last.pre.register_x)
        /\ NegativeIs(cpu.status, last.pre.register_x)

CarryIs(status, v) == contains(status, CARRY) <=> (v >= 128)

\* ASL on the accumulator: completes, shifts A, leaves memory alone
AslAccumulator ==
    /\ cpu.panic = "none"
    /\ CarryIs(cpu.status, last.pre.register_a)
    /\ cpu.register_a = (last.pre.register_a * 2) % 256
    /\ ZeroIs(cpu.status, cpu.register_a)
    /\ NegativeIs(cpu.status, cpu.register_a)
    /\ cpu.memory = last.pre.memory

\* ASL on a memory byte: shifts the byte at the effective address, leaves A alone
AslMemory ==
    /\ CarryIs(cpu.status, OperandBefore)
    /\ OperandAfter = (OperandBefore * 2) % 256
    /\ ZeroIs(cpu.status, OperandAfter)
    /\ NegativeIs(cpu.status, OperandAfter)
    /\ cpu.register_a = last.pre.register_a

\* C9: ASL with addressing mode NoneAddressing completes without a fatal condition,
\* sets Carry to the old bit 7 of the accumulator, doubles the accumulator modulo
\* 256, derives Zero/Negative from it and leaves memory unchanged; with a memory
\* addressing mode it does the same to the byte at the effective address and leaves
\* the accumulator unchanged.
C9_AslBothKinds ==
    /\ (Stepped /\ last.opcode.op = "ASL"
          /\ last.opcode.addressing_mode = "NoneAddressing") => AslAccumulator
    /\ (Completed("ASL")
          /\ last.opcode.addressing_mode # "NoneAddressing") => AslMemory

\* the memory half of the statement alone
C9_AslMemoryKind ==
    (Completed("ASL") /\ last.opcode.addressing_mode # "NoneAddressing") => AslMemory

\* what asl() does with NoneAddressing: the resolver is called first and panics
C9_AslAccumulatorPanics ==
    (Stepped /\ last.opcode.op = "ASL"
       /\ last.opcode.addressing_mode = "NoneAddressing") =>
        /\ cpu.panic = PANIC_MODE
        /\ phase = "panicked"

\* C10: an opcode whose mnemonic is in the unimplemented set ends run() in the
\* "not yet implemented" panic and changes nothing else; a byte with no entry in the
\* opcode table ends it in the "Invalid code" panic, a different outcome; after
\* either, no further iteration runs.
C10_UnimplementedFatal ==
    /\ Unimplemented =
          {"ADC", "SBC", "BCC", "BCS", "BEQ", "BMI", "BNE", "BPL", "BVC", "BVS",
           "BIT", "CMP", "CPX", "CPY", "JMP", "JSR", "RTS", "RTI", "LSR", "ROL",
           "ROR", "PHA", "PHP", "PLP"}
    /\ (Stepped /\ last.opcode.op \in Unimplemented) =>
          /\ cpu.panic = PANIC_TODO
          /\ phase = "panicked"
    /\ (Stepped /\ InBounds(OpcodeAddr) /\ last.opcode = NoOpcode) =>
          /\ cpu.panic = PANIC_INVALID
          /\ phase = "panicked"
    /\ PANIC_TODO # PANIC_INVALID
    /\ phase = "panicked" => ~ ENABLED Step

\* a subroutine call was fetched and run() ended as unimplemented
C10_Witness ==
    /\ Stepped
    /\ last.opcode.op = "JSR"
    /\ cpu.panic = PANIC_TODO
    /\ phase = "panicked"

\* a byte outside the table was fetched and run() ended as unrecognized
C10_WitnessInvalid ==
    /\ Stepped
    /\ InBounds(OpcodeAddr)
    /\ last.opcode = NoOpcode
    /\ cpu.panic = PANIC_INVALID


\* registers, stack pointer, Status and memory of the CPU are those of c
SameButPc(c) ==
    /\ cpu.register_a = c.register_a
    /\ cpu.register_x = c.register_x
    /\ cpu.register_y = c.register_y
    /\ cpu.stack_pointer = c.stack_pointer
    /\ cpu.status = c.status
    /\ cpu.memory = c.memory

\* C11: when an iteration of run() ends in a panic (unrecognized opcode,
\* unimplemented opcode, unsupported addressing mode or a memory access out of
\* bounds), the accumulator, X, Y, the stack pointer, Status and every memory byte
\* are what they were before the iteration: no handler fails half-way.
C11_FailureLeavesState ==
    (Stepped /\ cpu.panic # "none") =>
        /\ phase = "panicked"
        /\ SameButPc(last.pre)

\* a store whose operand address is out of bounds panicked in mem_write
C11_Witness ==
    /\ Stepped
    /\ last.opcode.op = "STA"
    /\ get_operand_address(AtHandler, last.opcode.addressing_mode).panic = "none"
    /\ cpu.panic = PANIC_INDEX
    /\ cpu.register_a # 0
    /\ SameButPc(last.pre)


\* the last call was call(args...) on last.pre
LastCall(call) == last.call = call

\* the call before the last one had the same first argument
SameAddressAsBefore(call) ==
    /\ last.prev.call = call
    /\ last.prev.args[1] = last.args[1]

\* C12: memory holds 65536 bytes: an 8-bit read and an 8-bit write at every
\* address 0x0000..0xFFFF, 0xFFFF included, succeed, and a read after a write to
\* the same address returns the written byte.
C12_FullAddressSpace ==
    /\ LastCall("mem_read") => cpu.panic = "none"
    /\ LastCall("mem_write") =>
          /\ cpu.panic = "none"
          /\ ReadByte(cpu.memory, last.args[1]) = last.args[2]
    /\ (LastCall("mem_read") /\ SameAddressAsBefore("mem_write")) =>
          last.ret = last.prev.args[2]

\* the same statement for the addresses below 0xFFFF, which the array holds
C12_BelowTop ==
    /\ (LastCall("mem_read") /\ last.args[1] < \hFFFF) => cpu.panic = "none"
    /\ (LastCall("mem_write") /\ last.args[1] < \hFFFF) =>
          /\ cpu.panic = "none"
          /\ ReadByte(cpu.memory, last.args[1]) = last.args[2]
    /\ (LastCall("mem_read") /\ SameAddressAsBefore("mem_write")
          /\ last.args[1] < \hFFFF) => last.ret = last.prev.args[2]

\* what the array of 0xFFFF bytes does at address 0xFFFF
C12_TopAddressPanics ==
    (LastCall("mem_read") \/ LastCall("mem_write")) /\ last.args[1] = \hFFFF
        => cpu.panic = PANIC_INDEX /\ cpu.memory = last.pre.memory


\* C13: in every reachable state (after new(), reset(), load() and every
\* instruction run() executes) the Break2 bit, bit 5 of Status, is clear.
C13_Break2Clear == ~ contains(cpu.status, BREAK2)

\* what the startup pattern 0b100100 gives: bit 5 is set from new() on, and no
\* implemented instruction clears it
C13_Break2Set == contains(cpu.status, BREAK2)


\* the address after a, modulo 65536
NextAddr(a) == (a + 1) % 65536

\* the little-endian word that memory holds at a and the address after it
WordAt(memory, a) == ReadByte(memory, a) + 256 * ReadByte(memory, NextAddr(a))

\* C14: write16(a, v) stores the low byte of v at a and the high byte at
\* (a + 1) mod 65536, and read16(a) returns mem[a] + 256 * mem[(a + 1) mod 65536];
\* neither fails for any a, 0xFFFF included, so read16(a) after write16(a, v) is v.
C14_Word16Wraps ==
    /\ LastCall("mem_write_u16") =>
          /\ cpu.panic = "none"
          /\ ReadByte(cpu.memory, last.args[1]) = last.args[2] % 256
          /\ ReadByte(cpu.memory, NextAddr(last.args[1])) = last.args[2] \div 256
    /\ LastCall("mem_read_u16") =>
          /\ cpu.panic = "none"
          /\ last.ret = WordAt(last.pre.memory, last.args[1])
    /\ (LastCall("mem_read_u16") /\ SameAddressAsBefore("mem_write_u16")) =>
          last.ret = last.prev.args[2]

\* the same statement for a <= 0xFFFD, where both bytes are in the array
C14_BelowTop ==
    /\ (LastCall("mem_write_u16") /\ last.args[1] <= \hFFFD) =>
          /\ cpu.panic = "none"
          /\ ReadByte(cpu.memory, last.args[1]) = last.args[2] % 256
          /\ ReadByte(cpu.memory, NextAddr(last.args[1])) = last.args[2] \div 256
    /\ (LastCall("mem_read_u16") /\ last.args[1] <= \hFFFD) =>
          /\ cpu.panic = "none"
          /\ last.ret = WordAt(last.pre.memory, last.args[1])
    /\ (LastCall("mem_read_u16") /\ SameAddressAsBefore("mem_write_u16")
          /\ last.args[1] <= \hFFFD) => last.ret = last.prev.args[2]

\* what happens at the top: both calls panic at 0xFFFE and at 0xFFFF, and
\* write16(0xFFFE, v) has stored its low byte by then
C14_TopPanics ==
    /\ ((LastCall("mem_write_u16") \/ LastCall("mem_read_u16"))
          /\ last.args[1] >= \hFFFE) => cpu.panic = PANIC_INDEX
    /\ (LastCall("mem_write_u16") /\ last.args[1] = \hFFFE) =>
          ReadByte(cpu.memory, \hFFFE) = last.args[2] % 256


\* the resolver was called with mode and returned
Resolved(mode) ==
    /\ LastCall("get_operand_address")
    /\ last.args[1] = mode

\* the operand byte the resolver found at the program counter
OperandByte == ReadByte(last.pre.memory, last.pre.program_counter)

\* C15: for every operand byte b and every X (resp. Y) the ZeroPage_X (resp.
\* ZeroPage_Y) effective address is (b + X) mod 256 (resp. (b + Y) mod 256): at most
\* 0xFF, never carried into page 1.
C15_ZeroPageIndexWraps ==
    /\ Resolved("ZeroPage_X") =>
          /\ cpu.panic = "none"
          /\ last.ret = (OperandByte + last.pre.register_x) % 256
          /\ last.ret <= \hFF
    /\ Resolved("ZeroPage_Y") =>
          /\ cpu.panic = "none"
          /\ last.ret = (OperandByte + last.pre.register_y) % 256
          /\ last.ret <= \hFF

\* b + X passed 0xFF and the address stayed in page 0
C15_Witness ==
    /\ Resolved("ZeroPage_X")
    /\ OperandByte = \hFF
    /\ last.pre.register_x = \h01
    /\ last.ret = \h00
    /\ cpu.panic = "none"

\* a byte of page 0 before the call
ZeroPageByte(a) == ReadByte(last.pre.memory, a % 256)

\* C16: Indirect_X resolves to mem[(b + X) mod 256] + 256 * mem[(b + X + 1) mod 256]
\* and Indirect_Y to (mem[b] + 256 * mem[(b + 1) mod 256] + Y) mod 65536: both
\* pointer bytes come from page 0 (a pointer at 0xFF takes its high byte from 0x00),
\* and only the final Indirect_Y sum may leave the page.
C16_IndirectPointers ==
    /\ Resolved("Indirect_X") =>
          /\ cpu.panic = "none"
          /\ last.ret = ZeroPageByte(OperandByte + last.pre.register_x)
                        + 256 * ZeroPageByte(OperandByte + last.pre.register_x + 1)
    /\ Resolved("Indirect_Y") =>
          /\ cpu.panic = "none"
          /\ last.ret = (ZeroPageByte(OperandByte) + 256 * ZeroPageByte(OperandByte + 1)
                         + last.pre.register_y) % 65536

\* a pointer at 0xFF whose high byte came from 0x00 and not from 0x100
C16_Witness ==
    /\ Resolved("Indirect_X")
    /\ (OperandByte + last.pre.register_x) % 256 = \hFF
    /\ ReadByte(last.pre.memory, \h0000) # ReadByte(last.pre.memory, \h0100)
    /\ last.ret \div 256 = ReadByte(last.pre.memory, \h0000)

\* an Indirect_Y address whose sum with Y left the page the pointer named
C16_WitnessCrossing ==
    /\ Resolved("Indirect_Y")
    /\ last.pre.register_y > 0
    /\ last.ret \div 256 # ZeroPageByte(OperandByte + 1)


\* bit n of a Status byte, counted from 0
StatusBit(status, n) == (status \div (2 ^ n)) % 2

\* C17: for every result byte r and every prior Status, the derivation leaves Zero
\* set iff r = 0 and Negative set iff bit 7 of r is set, whatever Zero and Negative
\* were, and leaves Carry, InterruptDisable, Decimal, Break, Break2 and Overflow as
\* they were.
C17_ZeroNegativeOnly ==
    LastCall("update_zero_and_negative_flags") =>
        /\ cpu.panic = "none"
        /\ StatusBit(cpu.status, 1) = (IF last.args[1] = 0 THEN 1 ELSE 0)
        /\ StatusBit(cpu.status, 7) = (IF last.args[1] >= 128 THEN 1 ELSE 0)
        /\ \A n \in {0, 2, 3, 4, 5, 6} :
              StatusBit(cpu.status, n) = StatusBit(last.pre.status, n)
        /\ [cpu EXCEPT !.status = 0] = [last.pre EXCEPT !.status = 0]

\* Zero was set, Negative clear and the other six bits set; a negative result came
C17_Witness ==
    /\ LastCall("update_zero_and_negative_flags")
    /\ last.pre.status = \h7F
    /\ last.args[1] = \h80
    /\ cpu.status = \hFD


\* the address of stack slot sp, and the slot below and above it modulo 256
Slot(sp) == STACK + (sp % 256)

\* memory changed at most at the addresses in slots, all in 0x0100..0x01FF
OnlySlotsWritten(slots) ==
    /\ \A a \in slots : a >= \h0100 /\ a <= \h01FF
    /\ \A a \in (DOMAIN cpu.memory \cup DOMAIN last.pre.memory) \ slots :
          ReadByte(cpu.memory, a) = ReadByte(last.pre.memory, a)

\* C18: push(b) writes b at 0x0100 + s and sets the pointer to (s - 1) mod 256; a
\* pop() right after returns b and restores s; push16(v) stores the high byte first
\* and pop16() right after returns v and restores the pointer, low byte popped
\* first; every stack access stays within 0x0100..0x01FF.
C18_StackRoundTrip ==
    /\ LastCall("stack_push") =>
          /\ cpu.panic = "none"
          /\ ReadByte(cpu.memory, Slot(last.pre.stack_pointer)) = last.args[1]
          /\ cpu.stack_pointer = (last.pre.stack_pointer + 255) % 256
          /\ OnlySlotsWritten({Slot(last.pre.stack_pointer)})
    /\ LastCall("stack_pop") =>
          /\ cpu.panic = "none"
          /\ cpu.stack_pointer = (last.pre.stack_pointer + 1) % 256
          /\ last.ret = ReadByte(last.pre.memory, Slot(last.pre.stack_pointer + 1))
          /\ OnlySlotsWritten({})
    /\ (LastCall("stack_pop") /\ last.prev.call = "stack_push") =>
          /\ last.ret = last.prev.args[1]
          /\ cpu.stack_pointer = last.prev.pre.stack_pointer
    /\ LastCall("stack_push_u16") =>
          /\ cpu.panic = "none"
          /\ ReadByte(cpu.memory, Slot(last.pre.stack_pointer)) = last.args[1] \div 256
          /\ ReadByte(cpu.memory, Slot(last.pre.stack_pointer + 255)) = last.args[1] % 256
          /\ cpu.stack_pointer = (last.pre.stack_pointer + 254) % 256
          /\ OnlySlotsWritten({Slot(last.pre.stack_pointer),
                               Slot(last.pre.stack_pointer + 255)})
    /\ LastCall("stack_pop_u16") =>
          /\ cpu.panic = "none"
          /\ cpu.stack_pointer = (last.pre.stack_pointer + 2) % 256
          /\ last.ret = ReadByte(last.pre.memory, Slot(last.pre.stack_pointer + 1))
                        + 256 * ReadByte(last.pre.memory, Slot(last.pre.stack_pointer + 2))
          /\ OnlySlotsWritten({})
    /\ (LastCall("stack_pop_u16") /\ last.prev.call = "stack_push_u16") =>
          /\ last.ret = last.prev.args[1]
          /\ cpu.stack_pointer = last.prev.pre.stack_pointer

\* a word whose bytes differ was pushed with the pointer at 0x00, so that its two
\* bytes lie at 0x0100 and 0x01FF, and popped back
C18_Witness ==
    /\ LastCall("stack_pop_u16")
    /\ last.prev.call = "stack_push_u16"
    /\ last.prev.args[1] = \h12FE
    /\ last.prev.pre.stack_pointer = \h00
    /\ ReadByte(cpu.memory, \h0100) = \h12
    /\ ReadByte(cpu.memory, \h01FF) = \hFE
    /\ last.ret = \h12FE
    /\ cpu.stack_pointer = \h00

\* C19: from any starting stack pointer, 256 consecutive pushes never fail and
\* bring the pointer back to where it started, and so do 256 consecutive pops: the
\* pointer wraps modulo 256 in both directions.
C19_StackPointerWraps ==
    /\ phase # "panicked"
    /\ phase = "pushing" =>
          cpu.stack_pointer = (entry.stack_pointer + 256 * runs - runs) % 256
    /\ phase = "popping" => cpu.stack_pointer = (entry.stack_pointer + runs) % 256
    /\ (phase \in {"pushing", "popping"} /\ runs % 256 = 0) =>
          cpu.stack_pointer = entry.stack_pointer

\* the 256th push in a row, from a pointer that wrapped on the way
C19_Witness ==
    /\ phase = "pushing"
    /\ runs = 256
    /\ entry.stack_pointer = \h01
    /\ cpu.stack_pointer = \h01
    /\ cpu.panic = "none"

\* the 256th pop in a row
C19_WitnessPops ==
    /\ phase = "popping"
    /\ runs = 256
    /\ entry.stack_pointer = \hFD
    /\ cpu.stack_pointer = \hFD


\* an iteration that leaves the loop running has moved the program counter up
PcIncreases ==
    (phase' = "running") => (cpu'.program_counter > cpu.program_counter)

\* C20: run() always terminates: every iteration that does not halt or panic
\* strictly increases the program counter, so the loop reaches BRK or a panic and
\* never cycles.
C20_RunTerminates == [][PcIncreases]_vars /\ <>Stopped

\* the loop ran from the start of a filled memory to the top and ended there
C20_Witness ==
    /\ Stopped
    /\ entry \in SledEntries
    /\ cpu.program_counter >= entry.program_counter + SledLength - 2
    /\ cpu.program_counter >= MEMORY_LEN - 1

=============================================================================
